---- MODULE Spec2Model ----
(***************************************************************************)
(* Digital Velocity Index pipeline (src/main.py).                          *)
(*                                                                         *)
(* The script is a straight-line batch transform.  The state is the set of *)
(* module-level tables it assigns, and there is one action per STEP of the *)
(* script, taken in program order:                                         *)
(*   STEP 2 CleanData, STEP 3 Aggregate, STEP 4 Merge, STEP 5 ComputeDVI,  *)
(*   STEP 6 IdentityDeserts.                                               *)
(* The initial state is the state after STEP 1 (the three silos loaded).   *)
(*                                                                         *)
(* Data representation                                                     *)
(*   text      a sequence of tokens; a token is a whitespace character or  *)
(*             a maximal run of non-whitespace characters, so              *)
(*             " Bengaluru Urban" is <<" ", "Bengaluru", " ", "Urban">>    *)
(*   datetime  an integer yyyymmdd; NaT is the out-of-range marker         *)
(*   float     counts are exact integers; NaN is the out-of-range marker;  *)
(*             a quotient is kept exact as [num, den]                      *)
(*   table     a sequence of rows, a row is a record column |-> value      *)
(***************************************************************************)
EXTENDS Integers, Sequences, FiniteSets, TLC

VARIABLES
    csv,               \* the three silos as loaded by STEP 1 (never reassigned)
    df_enrol,          \* enrolment table, cleaned in place by STEP 2
    df_demo,           \* demographic update table
    df_bio,            \* biometric update table
    enrol_agg,         \* STEP 3 outputs
    demo_agg,
    bio_agg,
    df,                \* master table of STEP 4, extended by STEP 5
    identity_deserts,  \* Series of STEP 6: sequence of [district, DVI]
    pc                 \* the next STEP to run

vars == <<csv, df_enrol, df_demo, df_bio, enrol_agg, demo_agg, bio_agg,
          df, identity_deserts, pc>>

(***************************************************************************)
(* Bounds of the model                                                     *)
(***************************************************************************)
MaxRows == 4       \* rows of the three silos together (general inputs)
MaxAbsent == 1     \* districts left out of the ranking inputs

(***************************************************************************)
(* Missing-value markers                                                   *)
(***************************************************************************)
NaT == -1          \* pd.NaT: what errors='coerce' yields for unparseable text
NaN == -2          \* float NaN: what a left merge yields for an unmatched key

(***************************************************************************)
(* Text                                                                    *)
(***************************************************************************)
Whitespace == {" ", "\t"}

\* Tokens of the model's universe in Python str (code point) order.  No token
\* is a prefix of another, so comparing token sequences lexicographically by
\* this order is comparing the strings they spell.
CodePointOrder ==
    << "\t", " ", "Araria", "BR", "Bangalore", "Banka", "Bengaluru", "Buxar",
       "Gaya", "Jamui", "KA", "Katihar", "Madhubani", "Mysuru", "Nalanda",
       "Patna", "Purnia", "Saran", "Sitamarhi", "Siwan", "Urban" >>

Rank(tok) == CHOOSE i \in 1..Len(CodePointOrder) : CodePointOrder[i] = tok

RECURSIVE TextLess(_, _)
TextLess(s, t) ==
    IF t = <<>> THEN FALSE
    ELSE IF s = <<>> THEN TRUE
    ELSE IF Head(s) = Head(t) THEN TextLess(Tail(s), Tail(t))
    ELSE Rank(Head(s)) < Rank(Head(t))

RECURSIVE LStrip(_)
LStrip(s) ==
    IF s # <<>> /\ Head(s) \in Whitespace THEN LStrip(Tail(s)) ELSE s

RECURSIVE RStrip(_)
RStrip(s) ==
    IF s # <<>> /\ s[Len(s)] \in Whitespace
    THEN RStrip(SubSeq(s, 1, Len(s) - 1))
    ELSE s

\* Series.str.strip()
Strip(s) == RStrip(LStrip(s))

\* Series.replace({...}): whole-value, case-sensitive matches only
Replace(s) ==
    IF s = <<"Bangalore", " ", "Urban">> THEN <<"Bengaluru">>
    ELSE IF s = <<"Bengaluru", " ", "Urban">> THEN <<"Bengaluru">>
    ELSE s

\* pd.to_datetime(text, errors='coerce')
ParseDate(text) ==
    CASE text = "2024-01-01" -> 20240101
      [] text = "2024-02-01" -> 20240201
      [] text = "2024-03-01" -> 20240301
      [] OTHER -> NaT

(***************************************************************************)
(* Tables                                                                  *)
(***************************************************************************)
EnrolCols == <<"age_0_5", "age_5_17">>
DemoCols == <<"demo_age_5_17", "demo_age_17_">>
BioCols == <<"bio_age_5_17", "bio_age_17_">>

Range(s) == {s[i] : i \in 1..Len(s)}

\* the composite key ['date', 'state', 'district', 'pincode']
Key(r) == <<r.date, r.state, r.district, r.pincode>>

KeyRecord(k) == [date |-> k[1], state |-> k[2], district |-> k[3], pincode |-> k[4]]

\* order of the group keys: tuple order, field by field
KeyLess(a, b) ==
    \/ a[1] < b[1]
    \/ a[1] = b[1] /\ TextLess(<<a[2]>>, <<b[2]>>)
    \/ a[1] = b[1] /\ a[2] = b[2] /\ TextLess(a[3], b[3])
    \/ a[1] = b[1] /\ a[2] = b[2] /\ a[3] = b[3] /\ a[4] < b[4]

RECURSIVE SortKeys(_)
SortKeys(S) ==
    IF S = {} THEN <<>>
    ELSE LET m == CHOOSE x \in S : \A y \in S \ {x} : KeyLess(x, y)
         IN  <<m>> \o SortKeys(S \ {m})

RECURSIVE SumWhere(_, _, _)
\* sum of column col over the rows of tbl whose key is k
SumWhere(tbl, col, k) ==
    IF tbl = <<>> THEN 0
    ELSE (IF Key(Head(tbl)) = k THEN Head(tbl)[col] ELSE 0)
         + SumWhere(Tail(tbl), col, k)

\* groupby drops a group whose key holds a missing value (dropna=True)
DropsKey(k) == k[1] = NaT
GroupKeys(tbl) == {k \in {Key(tbl[i]) : i \in 1..Len(tbl)} : ~DropsKey(k)}

\* Variant: the rows are handed on ungrouped (the raw records reach the merge)
GroupByNoSum(tbl, cols) == SelectSeq(tbl, LAMBDA r : ~DropsKey(Key(r)))

\* tbl.groupby(['date','state','district','pincode'], as_index=False).sum()
GroupBySum(tbl, cols) ==
    LET ks == SortKeys(GroupKeys(tbl))
    IN  [i \in 1..Len(ks) |->
            KeyRecord(ks[i]) @@
            [c \in Range(cols) |-> SumWhere(tbl, c, ks[i])]]

\* the right rows an inner join pairs with left row l
MatchedRows(l, right, cols) ==
    LET hits == SelectSeq(right, LAMBDA r : Key(r) = Key(l))
    IN  [j \in 1..Len(hits) |-> l @@ [c \in Range(cols) |-> hits[j][c]]]

\* Variant: how='inner', a left row without a match is lost
InnerJoinRows(l, right, cols) == MatchedRows(l, right, cols)

\* how='left': one output row per matching right row, a row of NaN where
\* there is none
LeftJoinRows(l, right, cols) ==
    LET hits == MatchedRows(l, right, cols)
    IN  IF hits = <<>> THEN << l @@ [c \in Range(cols) |-> NaN] >> ELSE hits

RECURSIVE LeftMerge(_, _, _)
\* left.merge(right, on=['date','state','district','pincode'], how='left'):
\* the order of the left rows is kept
LeftMerge(left, right, cols) ==
    IF left = <<>> THEN <<>>
    ELSE LeftJoinRows(Head(left), right, cols) \o LeftMerge(Tail(left), right, cols)

\* Variant: the fillna line left out
FillNaSkipped(tbl, cols) == tbl

\* df.fillna(0) on the measure columns (the key columns hold no missing value)
FillNa(tbl, cols) ==
    [i \in 1..Len(tbl) |->
        [f \in DOMAIN tbl[i] |->
            IF f \in Range(cols) /\ tbl[i][f] = NaN THEN 0 ELSE tbl[i][f]]]

(***************************************************************************)
(* Exact quotients                                                         *)
(***************************************************************************)
RECURSIVE GCD(_, _)
GCD(a, b) == IF b = 0 THEN a ELSE GCD(b, a % b)

Reduce(q) ==
    LET g == GCD(q.num, q.den)
    IN  IF g = 0 THEN q ELSE [num |-> q.num \div g, den |-> q.den \div g]

FracAdd(a, b) ==
    Reduce([num |-> a.num * b.den + b.num * a.den, den |-> a.den * b.den])

FracLess(a, b) == a.num * b.den < b.num * a.den
FracEq(a, b) == a.num * b.den = b.num * a.den

RECURSIVE FracSum(_)
FracSum(s) ==
    IF s = <<>> THEN [num |-> 0, den |-> 1] ELSE FracAdd(Head(s), FracSum(Tail(s)))

\* Series.mean()
Mean(s) == LET t == FracSum(s) IN Reduce([num |-> t.num, den |-> t.den * Len(s)])

(***************************************************************************)
(* STEP 5: the index                                                       *)
(***************************************************************************)
EnrolmentPressure(r) == r.age_0_5 + r.age_5_17

TotalUpdates(r) ==
    r.demo_age_5_17 + r.demo_age_17_ + r.bio_age_5_17 + r.bio_age_17_

\* Variant: the + 1 of the denominator left out
DVIWithoutPlusOne(tu, ep) == [num |-> tu, den |-> ep + tu]

\* total_updates / (enrolment_pressure + total_updates + 1)
DVI(tu, ep) == [num |-> tu, den |-> ep + tu + 1]

(***************************************************************************)
(* STEP 6: identity deserts                                                *)
(***************************************************************************)
HeadN == 10

\* df['DVI'] < 0.1
BelowThreshold(q) == 10 * q.num < q.den

DesertRows(tbl) == SelectSeq(tbl, LAMBDA r : BelowThreshold(r.DVI))

RECURSIVE SortText(_)
SortText(S) ==
    IF S = {} THEN <<>>
    ELSE LET m == CHOOSE x \in S : \A y \in S \ {x} : TextLess(x, y)
         IN  <<m>> \o SortText(S \ {m})

RECURSIVE Column(_, _)
Column(tbl, col) ==
    IF tbl = <<>> THEN <<>> ELSE <<Head(tbl)[col]>> \o Column(Tail(tbl), col)

\* .groupby('district')['DVI'].mean(): one entry per district, in index order
GroupMean(tbl) ==
    LET ds == SortText({tbl[i].district : i \in 1..Len(tbl)})
    IN  [i \in 1..Len(ds) |->
            [district |-> ds[i],
             DVI |-> Mean(Column(SelectSeq(tbl, LAMBDA r : r.district = ds[i]),
                                 "DVI"))]]

RECURSIVE DescendingOrders(_)
DescendingOrders(S) ==
    IF S = {} THEN {<<>>}
    ELSE UNION { {<<e>> \o t : t \in DescendingOrders(S \ {e})} :
                 e \in {x \in S : \A y \in S : ~FracLess(x.DVI, y.DVI)} }

\* Variant: sort_values(ascending=False)
SortValuesDescending(series) == DescendingOrders(Range(series))

RECURSIVE AscendingOrders(_)
\* the orders of the entries S in which the values never decrease
AscendingOrders(S) ==
    IF S = {} THEN {<<>>}
    ELSE UNION { {<<e>> \o t : t \in AscendingOrders(S \ {e})} :
                 e \in {x \in S : \A y \in S : ~FracLess(y.DVI, x.DVI)} }

\* Series.sort_values(): ascending, kind='quicksort', which is not a stable
\* sort: entries of equal value may come out in any order
SortValues(series) == AscendingOrders(Range(series))

\* Series.head(n)
HeadRows(s, n) == SubSeq(s, 1, IF Len(s) < n THEN Len(s) ELSE n)

(***************************************************************************)
(* Inputs: the silos as STEP 1 leaves them                                 *)
(***************************************************************************)
EnrolRow(d, s, dist, pin, a, b) ==
    [date |-> d, state |-> s, district |-> dist, pincode |-> pin,
     age_0_5 |-> a, age_5_17 |-> b]

DemoRow(d, s, dist, pin, a, b) ==
    [date |-> d, state |-> s, district |-> dist, pincode |-> pin,
     demo_age_5_17 |-> a, demo_age_17_ |-> b]

BioRow(d, s, dist, pin, a, b) ==
    [date |-> d, state |-> s, district |-> dist, pincode |-> pin,
     bio_age_5_17 |-> a, bio_age_17_ |-> b]

EnrolInputs ==
    << EnrolRow("2024-02-01", "KA", <<"Bengaluru", " ", "Urban">>, 560001, 10, 5),
       EnrolRow("2024-02-01", "KA", <<" ", "Bangalore", " ", "Urban">>, 560001, 3, 0),
       EnrolRow("2024-02-01", "KA", <<"Bengaluru", " ">>, 560001, 7, 0),
       EnrolRow("2024-01-01", "KA", <<"Mysuru">>, 570001, 3, 0),
       EnrolRow("2024-01-01", "KA", <<"Mysuru">>, 570001, 7, 0),
       EnrolRow("2024-01-01", "BR", <<"Sitamarhi", "\t">>, 843302, 10, 5),
       EnrolRow("n/a", "BR", <<"Sitamarhi">>, 843302, 7, 0),
       EnrolRow("2024-13-45", "KA", <<"Bangalore", " ", "Urban">>, 560001, 3, 0),
       EnrolRow("2024-01-01", "KA", <<"Bengaluru">>, 560001, 10, 5) >>

DemoInputs ==
    << DemoRow("2024-02-01", "KA", <<"Bangalore", " ", "Urban">>, 560001, 0, 90),
       DemoRow("2024-02-01", "KA", <<"Bengaluru">>, 560001, 1, 0),
       DemoRow("2024-01-01", "BR", <<" ", "Sitamarhi">>, 843302, 1, 0),
       DemoRow("n/a", "BR", <<"Sitamarhi">>, 843302, 0, 90),
       DemoRow("2024-01-01", "KA", <<"Mysuru", " ">>, 570001, 0, 1) >>

BioInputs ==
    << BioRow("2024-02-01", "KA", <<"Bengaluru", " ", "Urban">>, 560001, 5, 0),
       BioRow("2024-01-01", "BR", <<"Sitamarhi">>, 843302, 0, 1),
       BioRow("", "KA", <<"Mysuru">>, 570001, 5, 0) >>

\* the tables of at most n rows drawn from universe (rows in universe order)
Tables(universe, n) ==
    LET idx == {s \in UNION {[1..k -> 1..Len(universe)] : k \in 0..n} :
                   \A i \in 1..(Len(s) - 1) : s[i] <= s[i + 1]}
    IN  {[i \in 1..Len(s) |-> universe[s[i]]] : s \in idx}

GeneralInputs ==
    UNION { {[enrol |-> e, demo |-> d, bio |-> b] :
                e \in Tables(EnrolInputs, ne),
                d \in Tables(DemoInputs, nd),
                b \in Tables(BioInputs, MaxRows - ne - nd)} :
            ne \in 0..MaxRows, nd \in 0..MaxRows }

\* Ranking inputs: twelve districts of one state, one pincode each
RankDistricts ==
    << "Araria", "Banka", "Buxar", "Gaya", "Jamui", "Katihar", "Madhubani",
       "Nalanda", "Patna", "Purnia", "Saran", "Siwan" >>

RankEnrolment == <<10, 10, 11, 12, 12, 13, 14, 15, 16, 17, 18, 19>>

RankDate(i) == IF i % 2 = 1 THEN "2024-02-01" ELSE "2024-01-01"

SubsetsUpTo(S, n) == {T \in SUBSET S : Cardinality(T) <= n}

RECURSIVE Ascending(_, _)
\* the members of S among 1..n, in increasing order
Ascending(n, S) ==
    IF n = 0 THEN <<>>
    ELSE Ascending(n - 1, S) \o (IF n \in S THEN <<n>> ELSE <<>>)

\* present: the districts with an enrolment row; quiet: those with no update
\* row; busy: those whose update row is large; second: those with a second
\* enrolment row (a later month), which for the last district is a busy one
RankingInput(present, quiet, busy, second) ==
    LET n == Len(RankDistricts)
        first == Ascending(n, present)
        later == Ascending(n, present \cap second)
        upd == Ascending(n, (1..n) \ quiet)
        updLater == Ascending(n, second)
    IN  [enrol |->
            [j \in 1..Len(first) |->
                EnrolRow(RankDate(first[j]), "BR", <<RankDistricts[first[j]]>>,
                         800000 + first[j], RankEnrolment[first[j]], 0)]
            \o
            [j \in 1..Len(later) |->
                EnrolRow("2024-03-01", "BR", <<RankDistricts[later[j]], " ">>,
                         800000 + later[j], 9, 9)],
         demo |->
            [j \in 1..Len(upd) |->
                DemoRow(RankDate(upd[j]), "BR", <<" ", RankDistricts[upd[j]]>>,
                        800000 + upd[j],
                        IF upd[j] \in busy THEN 90 ELSE 1, 0)]
            \o
            [j \in 1..Len(updLater) |->
                DemoRow("2024-03-01", "BR", <<RankDistricts[updLater[j]]>>,
                        800000 + updLater[j], 0,
                        IF updLater[j] = 12 THEN 18 ELSE 1)],
         bio |-> <<>>]

RankingInputs ==
    LET all == 1..Len(RankDistricts)
    IN  {RankingInput(all \ absent, quiet, busy, second) :
            absent \in SubsetsUpTo(all, MaxAbsent),
            quiet \in SUBSET {3, 9},
            busy \in SUBSET {12},
            second \in SUBSET {2, 12}}

(***************************************************************************)
(* The script                                                              *)
(***************************************************************************)
Init ==
    /\ csv \in GeneralInputs \cup RankingInputs
    /\ df_enrol = csv.enrol
    /\ df_demo = csv.demo
    /\ df_bio = csv.bio
    /\ enrol_agg = <<>>
    /\ demo_agg = <<>>
    /\ bio_agg = <<>>
    /\ df = <<>>
    /\ identity_deserts = <<>>
    /\ pc = "STEP2"

\* df['date'] = pd.to_datetime(df['date'], errors='coerce')
ToDatetime(tbl) ==
    [i \in 1..Len(tbl) |-> [tbl[i] EXCEPT !.date = ParseDate(@)]]

\* clean_district(df)
clean_district(tbl) ==
    [i \in 1..Len(tbl) |-> [tbl[i] EXCEPT !.district = Replace(Strip(@))]]

\* STEP 2: basic data cleaning of the three silos
CleanData ==
    /\ pc = "STEP2"
    /\ df_enrol' = clean_district(ToDatetime(df_enrol))
    /\ df_demo' = clean_district(ToDatetime(df_demo))
    /\ df_bio' = clean_district(ToDatetime(df_bio))
    /\ pc' = "STEP3"
    /\ UNCHANGED <<csv, enrol_agg, demo_agg, bio_agg, df, identity_deserts>>

\* STEP 3: aggregate each silo before merging
Aggregate ==
    /\ pc = "STEP3"
    /\ enrol_agg' = GroupBySum(df_enrol, EnrolCols)
    /\ demo_agg' = GroupBySum(df_demo, DemoCols)
    /\ bio_agg' = GroupBySum(df_bio, BioCols)
    /\ pc' = "STEP4"
    /\ UNCHANGED <<csv, df_enrol, df_demo, df_bio, df, identity_deserts>>

\* STEP 4: merge the three silos into one master table, missing updates = 0
Merge ==
    /\ pc = "STEP4"
    /\ df' = FillNa(LeftMerge(LeftMerge(enrol_agg, demo_agg, DemoCols),
                              bio_agg, BioCols),
                    EnrolCols \o DemoCols \o BioCols)
    /\ pc' = "STEP5"
    /\ UNCHANGED <<csv, df_enrol, df_demo, df_bio, enrol_agg, demo_agg, bio_agg,
                   identity_deserts>>

\* the three columns STEP 5 adds to a row
IndexRow(r) ==
    LET ep == EnrolmentPressure(r)
        tu == TotalUpdates(r)
    IN  r @@ [enrolment_pressure |-> ep, total_updates |-> tu, DVI |-> DVI(tu, ep)]

\* STEP 5: Digital Velocity Index
ComputeDVI ==
    /\ pc = "STEP5"
    /\ df' = [i \in 1..Len(df) |-> IndexRow(df[i])]
    /\ pc' = "STEP6"
    /\ UNCHANGED <<csv, df_enrol, df_demo, df_bio, enrol_agg, demo_agg, bio_agg,
                   identity_deserts>>

\* STEP 6: identity deserts
IdentityDeserts ==
    /\ pc = "STEP6"
    /\ \E sorted \in SortValues(GroupMean(DesertRows(df))) :
           identity_deserts' = HeadRows(sorted, HeadN)
    /\ pc' = "done"
    /\ UNCHANGED <<csv, df_enrol, df_demo, df_bio, enrol_agg, demo_agg, bio_agg, df>>

Next ==
    \/ CleanData
    \/ Aggregate
    \/ Merge
    \/ ComputeDVI
    \/ IdentityDeserts

Spec == Init /\ [][Next]_vars

(***************************************************************************)
(* Properties                                                              *)
(***************************************************************************)
AfterClean == pc \in {"STEP3", "STEP4", "STEP5", "STEP6", "done"}
AfterAggregate == pc \in {"STEP4", "STEP5", "STEP6", "done"}
AfterMerge == pc \in {"STEP5", "STEP6", "done"}
AfterIndex == pc \in {"STEP6", "done"}

Rows(tbl) == 1..Len(tbl)
Keys(tbl) == {Key(tbl[i]) : i \in Rows(tbl)}
RowsWithKey(tbl, k) == {i \in Rows(tbl) : Key(tbl[i]) = k}
KeyUnique(tbl) == \A i, j \in Rows(tbl) : Key(tbl[i]) = Key(tbl[j]) => i = j

RECURSIVE Total(_, _, _)
\* the sum of column col over the rows I of tbl
Total(tbl, col, I) ==
    IF I = {} THEN 0
    ELSE LET i == CHOOSE x \in I : TRUE
         IN  tbl[i][col] + Total(tbl, col, I \ {i})

\* agg holds one row per distinct key of tbl, carrying the column sums
OneRowPerKey(agg, tbl, cols) ==
    /\ KeyUnique(agg)
    /\ Keys(agg) = Keys(tbl)
    /\ \A i \in Rows(agg) : \A c \in Range(cols) :
          agg[i][c] = Total(tbl, c, RowsWithKey(tbl, Key(agg[i])))

\* C1: the aggregate of every silo has no two rows with one composite key,
\* exactly one row per distinct key of the normalized silo, and in that row
\* every measure is the sum of the measure over the silo's records of the key.
C1_OneRowPerKeyWithSums ==
    AfterAggregate =>
        /\ OneRowPerKey(enrol_agg, df_enrol, EnrolCols)
        /\ OneRowPerKey(demo_agg, df_demo, DemoCols)
        /\ OneRowPerKey(bio_agg, df_bio, BioCols)

\* C2: the merged table has as many rows as the enrolment aggregate and holds
\* every key of the enrolment aggregate exactly once, whatever the demographic
\* and biometric silos hold (nothing included).
C2_MergeKeepsEnrolmentRows ==
    AfterMerge =>
        /\ Len(df) = Len(enrol_agg)
        /\ \A i \in Rows(enrol_agg) :
              Cardinality(RowsWithKey(df, Key(enrol_agg[i]))) = 1

C2_Witness ==
    /\ AfterMerge
    /\ Len(enrol_agg) >= 2
    /\ demo_agg = <<>>
    /\ csv.demo = <<>>
    /\ \E i \in Rows(enrol_agg) : Key(enrol_agg[i]) \in Keys(bio_agg)
    /\ \E i \in Rows(enrol_agg) : Key(enrol_agg[i]) \notin Keys(bio_agg)

\* the measures cols of merged row r are the sums over the records of silo tbl
\* that have r's key
SumsOfSilo(r, tbl, cols) ==
    \A c \in Range(cols) : r[c] = Total(tbl, c, RowsWithKey(tbl, Key(r)))

\* C3: every measure of every merged row is the sum of that measure over the
\* records its own silo holds for the row's key; the number of records the
\* other silos hold for the key never multiplies it.
C3_NoFanOut ==
    AfterMerge =>
        \A i \in Rows(df) :
            /\ SumsOfSilo(df[i], df_enrol, EnrolCols)
            /\ SumsOfSilo(df[i], df_demo, DemoCols)
            /\ SumsOfSilo(df[i], df_bio, BioCols)

C3_Witness ==
    /\ AfterMerge
    /\ \E i \in Rows(df) :
          /\ Cardinality(RowsWithKey(df_enrol, Key(df[i]))) >= 2
          /\ Cardinality(RowsWithKey(df_demo, Key(df[i]))) >= 2
          /\ df[i].age_0_5 = 10
          /\ df[i].demo_age_17_ > 0

\* C4: a merged row whose key the demographic (biometric) aggregate lacks
\* holds 0 in every demographic (biometric) measure; lacking both, it has
\* total_updates = 0 and DVI = 0.
C4_JoinMissIsZero ==
    AfterMerge =>
        \A i \in Rows(df) :
            /\ Key(df[i]) \notin Keys(demo_agg) =>
                  \A c \in Range(DemoCols) : df[i][c] = 0
            /\ Key(df[i]) \notin Keys(bio_agg) =>
                  \A c \in Range(BioCols) : df[i][c] = 0
            /\ (AfterIndex /\ Key(df[i]) \notin Keys(demo_agg) \cup Keys(bio_agg)) =>
                  /\ df[i].total_updates = 0
                  /\ df[i].DVI.num = 0
                  /\ df[i].DVI.den # 0

C4_Witness ==
    /\ AfterIndex
    /\ demo_agg # <<>>
    /\ \E i \in Rows(df) :
          /\ Key(df[i]) \notin Keys(demo_agg) \cup Keys(bio_agg)
          /\ df[i].district = <<"Bengaluru">>
          /\ df[i].age_0_5 = 10
          /\ df[i].age_5_17 = 5
    /\ \E i \in Rows(df) :
          /\ Key(df[i]) \in Keys(demo_agg)
          /\ Key(df[i]) \notin Keys(bio_agg)

\* C5: for every merged row of non-negative counts, enrolment_pressure and
\* total_updates are the stated sums, DVI is defined and equals
\* total_updates / (enrolment_pressure + total_updates + 1), 0 <= DVI < 1, and
\* DVI = 0 exactly when total_updates = 0.
C5_DVIBounded ==
    AfterIndex =>
        \A i \in Rows(df) :
            LET r == df[i]
                ep == r.age_0_5 + r.age_5_17
                tu == r.demo_age_5_17 + r.demo_age_17_
                      + r.bio_age_5_17 + r.bio_age_17_
            IN  (\A c \in Range(EnrolCols \o DemoCols \o BioCols) : r[c] >= 0) =>
                    /\ r.enrolment_pressure = ep
                    /\ r.total_updates = tu
                    /\ r.DVI.den > 0
                    /\ r.DVI.num * (ep + tu + 1) = tu * r.DVI.den
                    /\ 0 <= r.DVI.num
                    /\ r.DVI.num < r.DVI.den
                    /\ (r.DVI.num = 0 <=> tu = 0)

C5_Witness ==
    /\ AfterIndex
    /\ \E i \in Rows(df) :
          /\ df[i].enrolment_pressure = 15
          /\ df[i].total_updates = 95
          /\ df[i].DVI.num * 111 = 95 * df[i].DVI.den
    /\ \E i \in Rows(df) :
          df[i].enrolment_pressure = 0 \/ df[i].total_updates = 0

\* the row of agg that holds the sums of the records of tbl with key k
HasGroup(agg, tbl, cols, k) ==
    \E j \in Rows(agg) :
        /\ Key(agg[j]) = k
        /\ \A c \in Range(cols) :
              agg[j][c] = Total(tbl, c, RowsWithKey(tbl, k))

\* every record of raw whose date text does not parse carries the NaT marker
\* in tbl and is counted in a row of agg keyed by that marker
SentinelAggregated(raw, tbl, agg, cols) ==
    \A i \in Rows(raw) :
        ParseDate(raw[i].date) = NaT =>
            /\ tbl[i].date = NaT
            /\ HasGroup(agg, tbl, cols, Key(tbl[i]))

\* C6: a record whose date text cannot be parsed gets the NaT marker, the run
\* goes on, and the record is counted in an aggregated row keyed by the marker
\* (an enrolment record also in a merged row): it is never dropped.
C6_UnparseableDateKept ==
    /\ AfterAggregate =>
          /\ SentinelAggregated(csv.enrol, df_enrol, enrol_agg, EnrolCols)
          /\ SentinelAggregated(csv.demo, df_demo, demo_agg, DemoCols)
          /\ SentinelAggregated(csv.bio, df_bio, bio_agg, BioCols)
    /\ AfterMerge =>
          \A i \in Rows(csv.enrol) :
              ParseDate(csv.enrol[i].date) = NaT =>
                  HasGroup(df, df_enrol, EnrolCols, Key(df_enrol[i]))

\* The marker itself is set and the run goes on to its end (the part of C6
\* the script does implement).
SentinelIsSet ==
    AfterClean =>
        \A i \in Rows(csv.enrol) :
            ParseDate(csv.enrol[i].date) = NaT => df_enrol[i].date = NaT

(***************************************************************************)
(* Identity deserts, stated on the merged table                            *)
(***************************************************************************)
Qualifying(d) ==
    {i \in Rows(df) : df[i].district = d /\ 10 * df[i].DVI.num < df[i].DVI.den}

DesertDistricts == {df[i].district : i \in {j \in Rows(df) : Qualifying(df[j].district) # {}}}

RECURSIVE DVITotal(_)
\* the sum of DVI over the rows I of the merged table
DVITotal(I) ==
    IF I = {} THEN [num |-> 0, den |-> 1]
    ELSE LET i == CHOOSE x \in I : TRUE
             t == DVITotal(I \ {i})
         IN  [num |-> df[i].DVI.num * t.den + t.num * df[i].DVI.den,
              den |-> df[i].DVI.den * t.den]

\* the mean of DVI over the rows of district d with DVI < 0.1
DesertMean(d) ==
    LET t == DVITotal(Qualifying(d))
    IN  [num |-> t.num, den |-> t.den * Cardinality(Qualifying(d))]

Listed == {identity_deserts[i].district : i \in Rows(identity_deserts)}

Min(a, b) == IF a < b THEN a ELSE b

\* C7: the identity-desert output lists only districts with a merged row of
\* DVI < 0.1, each with the mean of DVI over exactly its rows of DVI < 0.1; it
\* has at most 10 entries, they are the districts of the lowest such means,
\* and they are in ascending order of the mean.
C7_IdentityDeserts ==
    pc = "done" =>
        /\ \A i \in Rows(identity_deserts) :
              /\ identity_deserts[i].district \in DesertDistricts
              /\ FracEq(identity_deserts[i].DVI,
                        DesertMean(identity_deserts[i].district))
        /\ \A i, j \in Rows(identity_deserts) :
              identity_deserts[i].district = identity_deserts[j].district => i = j
        /\ Len(identity_deserts) <= 10
        /\ Len(identity_deserts) = Min(10, Cardinality(DesertDistricts))
        /\ \A d \in DesertDistricts \ Listed : \A e \in Listed :
              ~FracLess(DesertMean(d), DesertMean(e))
        /\ \A i, j \in Rows(identity_deserts) :
              i < j => ~FracLess(identity_deserts[j].DVI, identity_deserts[i].DVI)

C7_Witness ==
    /\ pc = "done"
    /\ Len(identity_deserts) = 10
    /\ Cardinality(DesertDistricts) = 12
    /\ \E i \in Rows(df) :
          /\ df[i].district \in Listed
          /\ i \notin Qualifying(df[i].district)
    /\ \E d \in Listed : Cardinality(Qualifying(d)) = 2
    /\ \E d \in DesertDistricts \ Listed : \E e \in Listed :
          FracLess(DesertMean(e), DesertMean(d))

\* the place of district d's first row in the merged table
FirstSeen(d) == CHOOSE i \in Rows(df) :
    /\ df[i].district = d
    /\ \A j \in Rows(df) : df[j].district = d => i <= j

\* C8: districts of equal mean DVI come out in the order in which they first
\* appear in the merged table, and that order also decides which of them fall
\* inside the 10-entry cut-off.
C8_TiesInFirstSeenOrder ==
    pc = "done" =>
        /\ \A i, j \in Rows(identity_deserts) :
              (i < j /\ FracEq(identity_deserts[i].DVI, identity_deserts[j].DVI)) =>
                  FirstSeen(identity_deserts[i].district)
                      < FirstSeen(identity_deserts[j].district)
        /\ \A d \in DesertDistricts \ Listed : \A e \in Listed :
              FracEq(DesertMean(d), DesertMean(e)) => FirstSeen(e) < FirstSeen(d)

\* The tied districts in the order of the district names (what a stable sort
\* of the grouped means would give): not what the script guarantees either.
TiesInNameOrder ==
    pc = "done" =>
        \A i, j \in Rows(identity_deserts) :
            (i < j /\ FracEq(identity_deserts[i].DVI, identity_deserts[j].DVI)) =>
                TextLess(identity_deserts[i].district, identity_deserts[j].district)

(***************************************************************************)
(* Normalization                                                           *)
(***************************************************************************)
\* s without its leading and trailing whitespace, stated without Strip: the
\* slice of s between its first and its last non-whitespace token
Trimmed(s) ==
    LET inked == {i \in 1..Len(s) : s[i] \notin Whitespace}
    IN  IF inked = {} THEN <<>>
        ELSE SubSeq(s, CHOOSE i \in inked : \A j \in inked : i <= j,
                       CHOOSE i \in inked : \A j \in inked : j <= i)

Canon(name) ==
    IF name \in {<<"Bangalore", " ", "Urban">>, <<"Bengaluru", " ", "Urban">>}
    THEN <<"Bengaluru">>
    ELSE name

\* STEP 2 sets district to canon(trim(district)) and leaves state and pincode
Normalized(raw, tbl) ==
    /\ Len(tbl) = Len(raw)
    /\ \A i \in Rows(raw) :
          /\ tbl[i].district = Canon(Trimmed(raw[i].district))
          /\ tbl[i].state = raw[i].state
          /\ tbl[i].pincode = raw[i].pincode

\* records i and j of raw agree on date, state and pincode, and their
\* districts are spellings of Bengaluru up to surrounding whitespace
SameBengaluru(raw, i, j) ==
    /\ raw[i].date = raw[j].date
    /\ raw[i].state = raw[j].state
    /\ raw[i].pincode = raw[j].pincode
    /\ Canon(Trimmed(raw[i].district)) = <<"Bengaluru">>
    /\ Canon(Trimmed(raw[j].district)) = <<"Bengaluru">>

\* such records are counted together in exactly one row of agg, of district
\* Bengaluru
AliasesInOneRow(raw, tbl, agg, cols) ==
    \A i, j \in Rows(raw) :
        SameBengaluru(raw, i, j) =>
            /\ Key(tbl[i]) = Key(tbl[j])
            /\ tbl[i].district = <<"Bengaluru">>
            /\ Cardinality(RowsWithKey(agg, Key(tbl[i]))) = 1
            /\ HasGroup(agg, tbl, cols, Key(tbl[i]))

\* C9: all three silos are normalized before aggregation, district becoming
\* canon(trim(district)), unknown names passing through trimmed; so records
\* of one date, state and pincode whose districts differ by surrounding
\* whitespace or alias spelling only are counted in one aggregated row of
\* district Bengaluru.
C9_DistrictCanonicalized ==
    /\ AfterClean =>
          /\ Normalized(csv.enrol, df_enrol)
          /\ Normalized(csv.demo, df_demo)
          /\ Normalized(csv.bio, df_bio)
    /\ AfterAggregate =>
          /\ AliasesInOneRow(csv.enrol, df_enrol, enrol_agg, EnrolCols)
          /\ AliasesInOneRow(csv.demo, df_demo, demo_agg, DemoCols)
          /\ AliasesInOneRow(csv.bio, df_bio, bio_agg, BioCols)

\* The normalization of C9 alone: it holds in every run.
DistrictsNormalized ==
    AfterClean =>
        /\ Normalized(csv.enrol, df_enrol)
        /\ Normalized(csv.demo, df_demo)
        /\ Normalized(csv.bio, df_bio)

\* C10: aggregating a silo that has no two rows of one composite key returns
\* its rows, measures unchanged, the NaT-keyed ones included.
C10_Idempotent ==
    AfterAggregate =>
        /\ KeyUnique(df_enrol) => Range(enrol_agg) = Range(df_enrol)
        /\ KeyUnique(df_demo) => Range(demo_agg) = Range(df_demo)
        /\ KeyUnique(df_bio) => Range(bio_agg) = Range(df_bio)
        /\ Range(GroupBySum(enrol_agg, EnrolCols)) = Range(enrol_agg)

====
